---- MODULE Spec2Model ----
(***************************************************************************)
(* Model of flatten-string (src/src/main.rs): a global hotkey listener     *)
(* whose callback runs remove_newlines_and_paste: simulate Ctrl+C, read    *)
(* the clipboard, remove the newlines, write the clipboard, simulate       *)
(* Ctrl+V.                                                                 *)
(*                                                                         *)
(* The process has one thread.  Its position is pc (and k inside a chord). *)
(* The OS side is modelled by three things the code does not control: the  *)
(* stream of key events (queue), the clipboard (clipboard), which other    *)
(* processes may write while this process sleeps or waits for an event,    *)
(* and the outcome (ok or not) of every simulate / clipboard call.         *)
(***************************************************************************)
EXTENDS Integers, Sequences, FiniteSets, TLC

\* ------------------------------------------------------------------ bounds
\* Longest text given to the transform in SpecT.
MaxLen == 3
\* Longest text another process puts on the clipboard in Spec.
MaxClip == 1
\* Key events the OS holds back while the callback is busy.
MaxQueue == 1
\* Trigger presses delivered in one behaviour.
MaxPresses == 2

\* ------------------------------------------------------------- characters
CR == "\r"
LF == "\n"
SP == " "
Chars == {CR, LF, SP, "a"}

RECURSIVE TextsOfLen(_)
TextsOfLen(n) ==
    IF n = 0 THEN {<<>>}
    ELSE {Append(t, c) : t \in TextsOfLen(n - 1), c \in Chars}

RECURSIVE TextsUpTo(_)
TextsUpTo(n) == IF n = 0 THEN {<<>>} ELSE TextsOfLen(n) \cup TextsUpTo(n - 1)

\* "Hello\r\nWorld\n!" and "Hello World !"
HelloWorldIn ==
    <<"H", "e", "l", "l", "o", CR, LF, "W", "o", "r", "l", "d", LF, "!">>
HelloWorldOut ==
    <<"H", "e", "l", "l", "o", SP, "W", "o", "r", "l", "d", SP, "!">>

\* -------------------------------------------------------------- transform
\* str::replace(from, to): a new string, every occurrence of the character
\* `from` replaced by the string `to`, scanning left to right.
RECURSIVE Replace(_, _, _)
Replace(s, from, to) ==
    IF s = <<>> THEN <<>>
    ELSE (IF Head(s) = from THEN to ELSE <<Head(s)>>)
         \o Replace(Tail(s), from, to)

\* A transform that does the two replacements in the other order and maps
\* '\r' to a line feed instead of deleting it.
TransformCrToLf(s) == Replace(Replace(s, LF, <<SP>>), CR, <<LF>>)

\* A transform that forgets the '\r' pass.
TransformLfOnly(s) == Replace(s, LF, <<SP>>)

\* A transform that puts two spaces for a line feed.
TransformTwoSpaces(s) == Replace(Replace(s, CR, <<>>), LF, <<SP, SP>>)

\* original_text.replace('\r', "").replace('\n', " ")
Transform(s) == Replace(Replace(s, CR, <<>>), LF, <<SP>>)

\* ------------------------------------------------------------------- keys
\* The keys the user presses and releases: one that a chord uses too, and
\* one that no chord uses.
Keys == {"KeyC", "F8"}
\* The keys the trigger can be configured to (args.trigger_key.into()).
TriggerKeys == {"F8", "KeyC"}
\* What the OS reports: presses and releases of keys, and events that are
\* no key event (mouse moves, wheel, buttons).
Events ==
    {[type |-> ty, key |-> key] : ty \in {"KeyPress", "KeyRelease"}, key \in Keys}
    \cup {[type |-> "MouseMove", key |-> "-"]}

\* ------------------------------------------------------------------ state
VARIABLES
    pc,             \* where the thread is
    k,              \* inside a chord: the simulate call that is next (1..4)
    clipboard,      \* the OS clipboard's text
    original_text,  \* remove_newlines_and_paste's local
    modified_text,  \* remove_newlines_and_paste's local
    trace,          \* the collaborator calls of the running invocation
    result,         \* what remove_newlines_and_paste returns
    queue,          \* key events the OS has not delivered yet
    target_key,     \* the configured trigger key
    delivered,      \* presses of the trigger key delivered to the callback
    started,        \* invocations of remove_newlines_and_paste
    active,         \* invocations started and not returned
    last_event      \* the event the callback was last called with

vars ==
    <<pc, k, clipboard, original_text, modified_text, trace, result, queue,
      target_key, delivered, started, active, last_event>>

\* The state: pc and k are the thread's position (main, the callback,
\* remove_newlines_and_paste and the chord it is in), original_text and
\* modified_text the locals of lines 45 and 57, target_key the local of line
\* 112; clipboard and queue belong to the OS; trace, result, delivered,
\* started, active and last_event record what the code has done.
TypeOK ==
    /\ pc \in {"start", "listen", "send_ctrl_c", "get", "set", "send_ctrl_v",
               "ret", "exit_err", "exit_ok", "t_input", "t_once", "t_twice"}
    /\ k \in 0..4
    /\ (pc \in {"send_ctrl_c", "send_ctrl_v"}) = (k > 0)
    /\ Len(trace) <= 10
    /\ Len(queue) <= MaxQueue
    /\ target_key \in Keys
    /\ delivered \in 0..MaxPresses
    /\ started \in 0..MaxPresses
    /\ active \in 0..1

\* A chord that releases Ctrl before the letter.
ChordCtrlReleasedFirst(letter) ==
    << [op |-> "KeyPress", key |-> "ControlLeft"],
       [op |-> "KeyPress", key |-> letter],
       [op |-> "KeyRelease", key |-> "ControlLeft"],
       [op |-> "KeyRelease", key |-> letter] >>

\* The calls of a chord: press Ctrl, press letter, release letter, release Ctrl.
Chord(letter) ==
    << [op |-> "KeyPress", key |-> "ControlLeft"],
       [op |-> "KeyPress", key |-> letter],
       [op |-> "KeyRelease", key |-> letter],
       [op |-> "KeyRelease", key |-> "ControlLeft"] >>

CtrlCChord == Chord("KeyC")

\* send_ctrl_v copied from send_ctrl_c with the letter left unchanged.
CtrlVChordStillC == Chord("KeyC")

CtrlVChord == Chord("KeyV")

Call(op, key, val, ok) == [op |-> op, key |-> key, val |-> val, ok |-> ok]

ErrCtrlC == "Err: Failed to simulate Ctrl+C"
ErrGet == "Err: Failed to get text from clipboard. Was text copied?"
ErrSet == "Err: Failed to set modified text to clipboard"
ErrCtrlV == "Err: Failed to simulate Ctrl+V"
Results == {"none", "Ok", ErrCtrlC, ErrGet, ErrSet, ErrCtrlV}

ClipTexts == TextsUpTo(MaxClip)

NoEvent == [type |-> "none", key |-> "-"]

Init ==
    /\ pc = "start"
    /\ k = 0
    /\ clipboard \in ClipTexts
    /\ original_text = <<>>
    /\ modified_text = <<>>
    /\ trace = <<>>
    /\ result = "none"
    /\ queue = <<>>
    /\ target_key \in TriggerKeys
    /\ delivered = 0
    /\ started = 0
    /\ active = 0
    /\ last_event = NoEvent


\* ------------------------------------------------------------ environment
\* The thread is in a thread::sleep (lines 40, 69, 86-90, 99-103) or blocked
\* in listen waiting for the next event: the points at which the design lets
\* other processes (the foreground application reacting to the simulated
\* Ctrl+C among them) change the clipboard.
Asleep ==
    \/ pc = "listen"
    \/ pc = "send_ctrl_c" /\ k > 1
    \/ pc = "get"
    \/ pc = "send_ctrl_v"

\* Another process replaces the clipboard's text.
ExternalClipboardWrite ==
    /\ Asleep
    /\ \E t \in ClipTexts : clipboard' = t
    /\ UNCHANGED <<pc, k, original_text, modified_text, trace, result, queue,
                   target_key, delivered, started, active, last_event>>

\* The OS records a key event; it stays queued until the hook's thread takes it.
Arrive ==
    /\ pc \notin {"start", "exit_err", "exit_ok"}
    /\ Len(queue) < MaxQueue
    /\ \E e \in Events : queue' = Append(queue, e)
    /\ UNCHANGED <<pc, k, clipboard, original_text, modified_text, trace,
                   result, target_key, delivered, started, active, last_event>>

\* --------------------------------------------------------------- listener
\* listen(callback) fails to install the hook, or installs it and blocks.
ListenInstall ==
    /\ pc = "start"
    /\ \E ok \in BOOLEAN : pc' = IF ok THEN "listen" ELSE "exit_err"
    /\ UNCHANGED <<k, clipboard, original_text, modified_text, trace, result,
                   queue, target_key, delivered, started, active, last_event>>

\* The event stream ends with an error: listen returns Err, main returns Err.
ListenError ==
    /\ pc = "listen"
    /\ pc' = "exit_err"
    /\ UNCHANGED <<k, clipboard, original_text, modified_text, trace, result,
                   queue, target_key, delivered, started, active, last_event>>

\* listen returns Ok(()) (its type is Result<(), ListenError>): the `if let
\* Err` of line 136 does not match and main ends with the Ok(()) of line 145.
ListenReturnsOk ==
    /\ pc = "listen"
    /\ pc' = "exit_ok"
    /\ UNCHANGED <<k, clipboard, original_text, modified_text, trace, result,
                   queue, target_key, delivered, started, active, last_event>>

\* A dispatcher that hands events to the callback from another thread while
\* an earlier call of the callback has not returned.
ListenReadyConcurrent == pc \notin {"start", "exit_err", "exit_ok"}

\* listen calls the callback on its own thread, one event at a time: the
\* next event is taken only when the previous call has returned.
ListenReady == pc = "listen"

\* A guard that forgets the press/release phase.
IsTriggerAnyPhase(event) == event.key = target_key

\* A guard that forgets the key.
IsTriggerAnyKey(event) == event.type = "KeyPress"

\* EventType::KeyPress(key) if key == target_key
IsTrigger(event) == event.type = "KeyPress" /\ event.key = target_key

\* The callback: a press of the trigger key calls remove_newlines_and_paste,
\* whose first call is send_ctrl_c; every other event is ignored.
Callback(event) ==
    IF IsTrigger(event)
    THEN /\ pc' = "send_ctrl_c"
         /\ k' = 1
         /\ started' = started + 1
         /\ active' = active + 1
         /\ trace' = <<>>
         /\ result' = "none"
    ELSE UNCHANGED <<pc, k, started, active, trace, result>>

\* The OS delivers the oldest queued event to the callback.
Deliver ==
    /\ ListenReady
    /\ queue # <<>>
    /\ delivered < MaxPresses
    /\ started < MaxPresses
    /\ LET event == Head(queue) IN
         /\ queue' = Tail(queue)
         /\ last_event' = event
         /\ delivered' = delivered +
              (IF event.type = "KeyPress" /\ event.key = target_key THEN 1 ELSE 0)
         /\ Callback(event)
    /\ UNCHANGED <<clipboard, original_text, modified_text, target_key>>

\* --------------------------------------------------------------- pipeline
\* A chord step that drops the `?`: a failed simulate call does not return.
ChordStepNoAbort(chord, context, nextpc, nextresult) ==
    \E ok \in BOOLEAN :
        /\ trace' = Append(trace, Call(chord[k].op, chord[k].key, <<>>, ok))
        /\ IF k < Len(chord) THEN /\ k' = k + 1
                                  /\ UNCHANGED <<pc, result>>
           ELSE /\ pc' = nextpc
                /\ k' = 0
                /\ result' = nextresult

\* One simulate call of a chord and the `?` after it: on Err the chord and
\* remove_newlines_and_paste return at once with `context`.
ChordStep(chord, context, nextpc, nextresult) ==
    \E ok \in BOOLEAN :
        /\ trace' = Append(trace, Call(chord[k].op, chord[k].key, <<>>, ok))
        /\ IF ~ok THEN /\ pc' = "ret"
                       /\ k' = 0
                       /\ result' = context
           ELSE IF k < Len(chord) THEN /\ k' = k + 1
                                       /\ UNCHANGED <<pc, result>>
           ELSE /\ pc' = nextpc
                /\ k' = 0
                /\ result' = nextresult

\* 1. send_ctrl_c().context("Failed to simulate Ctrl+C")?  then the 150 ms sleep.
SendCtrlC ==
    /\ pc = "send_ctrl_c"
    /\ ChordStep(CtrlCChord, ErrCtrlC, "get", "none")
    /\ UNCHANGED <<clipboard, original_text, modified_text, queue, target_key,
                   delivered, started, active, last_event>>

\* A get step without the is_empty() early return.
GetClipboardNoEmptyCheck ==
    /\ pc = "get"
    /\ \E ok \in BOOLEAN :
        /\ trace' = Append(trace, Call("get_clipboard_string", "-",
                                       IF ok THEN clipboard ELSE <<>>, ok))
        /\ IF ~ok THEN /\ pc' = "ret"
                       /\ result' = ErrGet
                       /\ UNCHANGED original_text
           ELSE /\ original_text' = clipboard
                /\ pc' = "set"
                /\ UNCHANGED result
    /\ k' = 0
    /\ UNCHANGED <<clipboard, modified_text, queue, target_key, delivered,
                   started, active, last_event>>

\* A get step that tries the read again when it fails.
GetClipboardRetry ==
    /\ pc = "get"
    /\ \E ok \in BOOLEAN :
        /\ trace' = Append(trace, Call("get_clipboard_string", "-",
                                       IF ok THEN clipboard ELSE <<>>, ok))
        /\ IF ~ok THEN UNCHANGED <<pc, result, original_text>>
           ELSE /\ original_text' = clipboard
                /\ IF clipboard = <<>>
                   THEN pc' = "ret" /\ result' = "Ok"
                   ELSE pc' = "set" /\ UNCHANGED result
    /\ k' = 0
    /\ UNCHANGED <<clipboard, modified_text, queue, target_key, delivered,
                   started, active, last_event>>

\* 3. get_clipboard_string()...?  and the is_empty() early return.
GetClipboard ==
    /\ pc = "get"
    /\ \E ok \in BOOLEAN :
        /\ trace' = Append(trace, Call("get_clipboard_string", "-",
                                       IF ok THEN clipboard ELSE <<>>, ok))
        /\ IF ~ok THEN /\ pc' = "ret"
                       /\ result' = ErrGet
                       /\ UNCHANGED original_text
           ELSE /\ original_text' = clipboard
                /\ IF clipboard = <<>>
                   THEN pc' = "ret" /\ result' = "Ok"
                   ELSE pc' = "set" /\ UNCHANGED result
    /\ k' = 0
    /\ UNCHANGED <<clipboard, modified_text, queue, target_key, delivered,
                   started, active, last_event>>

\* A set step that passes original_text to set_clipboard_string.
SetClipboardUntransformed ==
    /\ pc = "set"
    /\ modified_text' = Transform(original_text)
    /\ \E ok \in BOOLEAN :
        /\ trace' = Append(trace, Call("set_clipboard_string", "-",
                                       original_text, ok))
        /\ IF ok THEN /\ clipboard' = original_text
                      /\ pc' = "send_ctrl_v"
                      /\ k' = 1
                      /\ UNCHANGED result
           ELSE /\ pc' = "ret"
                /\ k' = 0
                /\ result' = ErrSet
                /\ UNCHANGED clipboard
    /\ UNCHANGED <<original_text, queue, target_key, delivered, started, active,
                   last_event>>

\* A set step that drops the `?`: after a failed write it goes on to paste.
SetClipboardNoAbort ==
    /\ pc = "set"
    /\ modified_text' = Transform(original_text)
    /\ \E ok \in BOOLEAN :
        /\ trace' = Append(trace, Call("set_clipboard_string", "-",
                                       modified_text', ok))
        /\ clipboard' = IF ok THEN modified_text' ELSE clipboard
        /\ pc' = "send_ctrl_v"
        /\ k' = 1
        /\ UNCHANGED result
    /\ UNCHANGED <<original_text, queue, target_key, delivered, started, active,
                   last_event>>

\* 4. the transform, 5. set_clipboard_string(&modified_text)...?  then the
\* 150 ms sleep.  A write that fails leaves the clipboard as it was.
SetClipboard ==
    /\ pc = "set"
    /\ modified_text' = Transform(original_text)
    /\ \E ok \in BOOLEAN :
        /\ trace' = Append(trace, Call("set_clipboard_string", "-",
                                       modified_text', ok))
        /\ IF ok THEN /\ clipboard' = modified_text'
                      /\ pc' = "send_ctrl_v"
                      /\ k' = 1
                      /\ UNCHANGED result
           ELSE /\ pc' = "ret"
                /\ k' = 0
                /\ result' = ErrSet
                /\ UNCHANGED clipboard
    /\ UNCHANGED <<original_text, queue, target_key, delivered, started, active,
                   last_event>>

\* 7. send_ctrl_v().context("Failed to simulate Ctrl+V")?  then Ok(()).
SendCtrlV ==
    /\ pc = "send_ctrl_v"
    /\ ChordStep(CtrlVChord, ErrCtrlV, "ret", "Ok")
    /\ UNCHANGED <<clipboard, original_text, modified_text, queue, target_key,
                   delivered, started, active, last_event>>

\* A callback that lets the Err of remove_newlines_and_paste end the
\* listener instead of printing it.
ReturnPropagatesErr ==
    /\ pc = "ret"
    /\ pc' = IF result = "Ok" THEN "listen" ELSE "exit_err"
    /\ active' = active - 1
    /\ original_text' = <<>>
    /\ modified_text' = <<>>
    /\ trace' = <<>>
    /\ result' = "none"
    /\ UNCHANGED <<k, clipboard, queue, target_key, delivered, started,
                   last_event>>

\* remove_newlines_and_paste returns to the callback, which prints an Err
\* and returns to listen; the locals are dropped.
Return ==
    /\ pc = "ret"
    /\ pc' = "listen"
    /\ active' = active - 1
    /\ original_text' = <<>>
    /\ modified_text' = <<>>
    /\ trace' = <<>>
    /\ result' = "none"
    /\ UNCHANGED <<k, clipboard, queue, target_key, delivered, started,
                   last_event>>

Next ==
    \/ ListenInstall
    \/ ListenError
    \/ ListenReturnsOk
    \/ Arrive
    \/ Deliver
    \/ SendCtrlC
    \/ GetClipboard
    \/ SetClipboard
    \/ SendCtrlV
    \/ Return
    \/ ExternalClipboardWrite

Spec == Init /\ [][Next]_vars

\* The steps of the thread inside remove_newlines_and_paste and its return to
\* the callback.
PipelineStep ==
    SendCtrlC \/ GetClipboard \/ SetClipboard \/ SendCtrlV \/ Return

\* Every simulate, clipboard and sleep call returns: the thread, once inside
\* the pipeline, goes on to its next statement.
SpecLive == Spec /\ WF_vars(PipelineStep)

\* -------------------------------------------- the transform on its own
\* The inputs of the transform: every text up to MaxLen, and the example.
TransformInputs == TextsUpTo(MaxLen) \cup {HelloWorldIn}

InitT ==
    /\ pc = "t_input"
    /\ k = 0
    /\ clipboard = <<>>
    /\ original_text \in TransformInputs
    /\ modified_text = <<>>
    /\ trace = <<>>
    /\ result = "none"
    /\ queue = <<>>
    /\ target_key = "F8"
    /\ delivered = 0
    /\ started = 0
    /\ active = 0
    /\ last_event = NoEvent

\* Lines 57 and 64 on the input: the transform, and its output put on the
\* clipboard.  trace keeps the input.
TransformOnce ==
    /\ pc = "t_input"
    /\ modified_text' = Transform(original_text)
    /\ clipboard' = modified_text'
    /\ trace' = <<original_text>>
    /\ pc' = "t_once"
    /\ UNCHANGED <<k, original_text, result, queue, target_key, delivered,
                   started, active, last_event>>

\* Lines 45 and 57 on the output of the first run: the next invocation reads
\* the text the first one wrote and transforms it again.
TransformAgain ==
    /\ pc = "t_once"
    /\ original_text' = clipboard
    /\ modified_text' = Transform(clipboard)
    /\ pc' = "t_twice"
    /\ UNCHANGED <<k, clipboard, trace, result, queue, target_key, delivered,
                   started, active, last_event>>

NextT == TransformOnce \/ TransformAgain

SpecT == InitT /\ [][NextT]_vars


\* ================================================================ claims
AllOk(tr) == \A i \in 1..Len(tr) : tr[i].ok
Last(tr) == tr[Len(tr)]
IsPrefix(a, b) == Len(a) <= Len(b) /\ \A i \in 1..Len(a) : a[i] = b[i]
\* A trace without the values and outcomes: which call, on which key.
Shape(tr) == [i \in 1..Len(tr) |-> <<tr[i].op, tr[i].key>>]
InPipeline == pc \in {"send_ctrl_c", "get", "set", "send_ctrl_v", "ret"}

\* The order the spec gives: copy chord, read, write, paste chord.
FullShape ==
    << <<"KeyPress", "ControlLeft">>, <<"KeyPress", "KeyC">>,
       <<"KeyRelease", "KeyC">>, <<"KeyRelease", "ControlLeft">>,
       <<"get_clipboard_string", "-">>,
       <<"set_clipboard_string", "-">>,
       <<"KeyPress", "ControlLeft">>, <<"KeyPress", "KeyV">>,
       <<"KeyRelease", "KeyV">>, <<"KeyRelease", "ControlLeft">> >>

\* C1: in an invocation in which no collaborator call fails and the text read
\* is not empty, the calls made are, once each and in this order, the four
\* events of the copy chord, one clipboard read, one clipboard write, the four
\* events of the paste chord: at every point of the invocation the calls so
\* far are a prefix of that sequence, and at its return they are all of it.
C1_CallsInOrder ==
    /\ (InPipeline /\ AllOk(trace)) => IsPrefix(Shape(trace), FullShape)
    /\ (pc = "ret" /\ AllOk(trace) /\ original_text # <<>>)
          => Shape(trace) = FullShape

\* An invocation without a failure and with a non-empty text has returned.
C1_Witness ==
    /\ pc = "ret"
    /\ result = "Ok"
    /\ AllOk(trace)
    /\ original_text # <<>>
    /\ Len(trace) = 10

\* C2: once a call of an invocation fails, the invocation makes no further
\* call and returns the failure of that step: a failed call is the last call
\* of the trace, so a failed simulate call of the copy chord is followed by no
\* clipboard read, no write and no paste event, and a failed read by no write
\* and no paste event.
C2_NoStepAfterFailure ==
    /\ \A i \in 1..Len(trace) :
          ~trace[i].ok =>
             /\ i = Len(trace)
             /\ pc = "ret"
             /\ result = (IF i <= 4 THEN ErrCtrlC
                          ELSE IF i = 5 THEN ErrGet
                          ELSE IF i = 6 THEN ErrSet ELSE ErrCtrlV)
    /\ \A i \in 1..Len(trace) :
          (~trace[i].ok /\ i <= 5) =>
             \A j \in 1..Len(trace) :
                /\ trace[j].op # "set_clipboard_string"
                /\ trace[j].key # "KeyV"
                /\ (i <= 4 => trace[j].op # "get_clipboard_string")

\* The press of the letter key C failed, and the invocation has returned.
C2_Witness ==
    /\ pc = "ret"
    /\ Len(trace) = 2
    /\ trace[2].op = "KeyPress"
    /\ trace[2].key = "KeyC"
    /\ ~trace[2].ok
    /\ result = ErrCtrlC

\* The clipboard read of this invocation returned the empty text.
EmptyRead(i) ==
    /\ trace[i].op = "get_clipboard_string"
    /\ trace[i].ok
    /\ trace[i].val = <<>>
SimulateOps == {"KeyPress", "KeyRelease"}

\* C3 (as amended): when the clipboard read returns the empty text, the
\* invocation makes no clipboard write and no paste call and returns Ok, not an
\* error; the simulate calls it has made are the four of the copy chord, which
\* come before the read, and none comes after it.
C3_EmptyShortCircuit ==
    \A i \in 1..Len(trace) :
        EmptyRead(i)
        => /\ i = Len(trace)
           /\ pc = "ret"
           /\ result = "Ok"
           /\ \A j \in 1..Len(trace) :
                 trace[j].op # "set_clipboard_string" /\ trace[j].key # "KeyV"
           /\ Shape(trace) = SubSeq(FullShape, 1, 5)

\* The read returned the empty text and the invocation has returned.
C3_Witness ==
    /\ pc = "ret"
    /\ Len(trace) = 5
    /\ EmptyRead(5)
    /\ result = "Ok"

\* C3 as stated: after an empty read no write and no paste call occur, the
\* invocation returns Ok, and a mock of the simulation capability has received
\* zero calls.
C3_ZeroSimulateCalls ==
    \A i \in 1..Len(trace) :
        EmptyRead(i)
        => /\ result = "Ok"
           /\ \A j \in 1..Len(trace) :
                 trace[j].op # "set_clipboard_string" /\ trace[j].key # "KeyV"
           /\ \A j \in 1..Len(trace) : trace[j].op \notin SimulateOps

\* C4: when the clipboard write fails, the invocation returns the write
\* failure, the clipboard holds the text this invocation read (not the
\* transformed text), the failed write is the only write (no restore), and no
\* paste event is simulated.
C4_WriteFailure ==
    \A i \in 1..Len(trace) :
        (trace[i].op = "set_clipboard_string" /\ ~trace[i].ok)
        => /\ pc = "ret"
           /\ result = ErrSet
           /\ i = Len(trace)
           /\ i > 1
           /\ trace[i - 1].op = "get_clipboard_string"
           /\ clipboard = trace[i - 1].val
           /\ clipboard = original_text
           /\ Cardinality({j \in 1..Len(trace) :
                             trace[j].op = "set_clipboard_string"}) = 1
           /\ \A j \in 1..Len(trace) : trace[j].key # "KeyV"

\* The write of a text with a line feed failed: the clipboard still has the
\* line feed.
C4_Witness ==
    /\ pc = "ret"
    /\ result = ErrSet
    /\ original_text = <<LF>>
    /\ modified_text = <<SP>>
    /\ clipboard = <<LF>>


\* --------------------------------------------------------- the transform
Count(c, s) == Cardinality({i \in 1..Len(s) : s[i] = c})
NotCR(c) == c # CR
\* What the spec asks of the transform, in one pass: the characters of s that
\* are no carriage return, in their order, a space standing for a line feed.
Expected(s) ==
    LET kept == SelectSeq(s, NotCR)
    IN  [i \in 1..Len(kept) |-> IF kept[i] = LF THEN SP ELSE kept[i]]

\* C5: the transform returns its input with every carriage return deleted and
\* every line feed replaced by one space, every other character kept, in the
\* original order; "Hello\r\nWorld\n!" becomes "Hello World !".
C5_TransformMeaning ==
    pc = "t_once" =>
        /\ modified_text = Expected(original_text)
        /\ (original_text = HelloWorldIn => modified_text = HelloWorldOut)

\* The example has been transformed.
C5_Witness ==
    /\ pc = "t_once"
    /\ original_text = HelloWorldIn
    /\ modified_text = HelloWorldOut

\* C6: the transform is idempotent: applied to its own output (the text the
\* first run left on the clipboard) it returns that text unchanged.
C6_Idempotent == pc = "t_twice" => modified_text = clipboard

\* A text with a carriage return and a line feed has been transformed twice.
C6_Witness ==
    /\ pc = "t_twice"
    /\ trace = << <<"a", CR, LF>> >>
    /\ clipboard = <<"a", SP>>
    /\ modified_text = <<"a", SP>>

\* C7: the output of the transform holds no carriage return and no line feed,
\* and it holds as many spaces more than the input as the input holds line
\* feeds.
C7_NewlineCoverage ==
    pc = "t_once" =>
        /\ Count(CR, modified_text) = 0
        /\ Count(LF, modified_text) = 0
        /\ Count(SP, modified_text) - Count(SP, original_text)
              = Count(LF, original_text)

\* A bare carriage return followed by a carriage return and line feed pair
\* has been transformed to one space.
C7_Witness ==
    /\ pc = "t_once"
    /\ original_text = <<CR, CR, LF>>
    /\ modified_text = <<SP>>

\* ----------------------------------------------------------- the listener
TriggerPress == [type |-> "KeyPress", key |-> target_key]
\* This step hands the oldest queued event to the callback.
Delivery == Len(queue') < Len(queue)

\* C8: the callback starts the pipeline only for a press of the trigger key:
\* an invocation starts only in a step that delivers such a press, the thread
\* is inside the pipeline only after such a press, and the delivery of any
\* other event (a release of the trigger key, a press or release of another
\* key, an event that is no key event) leaves the thread listening, with no
\* simulate call, no clipboard read and no clipboard write.
C8_OnlyTriggerPress ==
    [][ /\ (started' # started) => (Delivery /\ Head(queue) = TriggerPress)
        /\ InPipeline' => last_event' = TriggerPress
        /\ (Delivery /\ Head(queue) # TriggerPress)
              => /\ pc' = "listen"
                 /\ UNCHANGED <<k, clipboard, original_text, modified_text,
                                trace, result, started, active>>
      ]_vars

\* A release of the trigger key has been delivered and nothing was started.
C8_Witness ==
    /\ pc = "listen"
    /\ last_event = [type |-> "KeyRelease", key |-> target_key]
    /\ started = 0
    /\ trace = <<>>

\* C9: the number of invocations started equals the number of presses of the
\* trigger key delivered: none is dropped, none runs twice.
C9_OncePerPress == started = delivered

\* Two presses of the trigger key were delivered and two invocations ran.
C9_Witness ==
    /\ delivered = 2
    /\ started = 2
    /\ pc = "ret"

\* C10: at most one invocation is running at any time, and an event is
\* delivered to the callback only when no invocation is running: an event that
\* arrived during an invocation waits in the queue until it has returned.
C10_NoOverlap ==
    /\ [](active <= 1 /\ (active = 1 <=> InPipeline))
    /\ [][Delivery => (active = 0 /\ pc = "listen")]_vars

\* An event arrived while an invocation is asleep before its paste chord, and
\* waits.
C10_Witness ==
    /\ pc = "send_ctrl_v"
    /\ active = 1
    /\ queue # <<>>


\* ------------------------------------------------- failures and the listener
Errs == {ErrCtrlC, ErrGet, ErrSet, ErrCtrlV}

\* C11: a failed invocation does not end the listener: from the return of
\* remove_newlines_and_paste, whatever it returned, the thread goes back to
\* listening with the queued events kept (the process ends only from outside
\* the pipeline), and a press of the trigger key delivered to the listening
\* thread, after a failed invocation as after any other, starts a new
\* invocation.
C11_FailureKeepsListening ==
    [][ /\ (pc = "ret" /\ pc' # pc) => (pc' = "listen" /\ queue' = queue)
        /\ (pc = "listen" /\ Delivery /\ Head(queue) = TriggerPress)
              => (pc' = "send_ctrl_c" /\ started' = started + 1)
        /\ (pc' \in {"exit_err", "exit_ok"} /\ pc' # pc) => ~InPipeline
      ]_vars

\* The first invocation returns the failure of the clipboard write while a
\* new press of the trigger key is waiting to be delivered.
C11_Witness ==
    /\ pc = "ret"
    /\ result = ErrSet
    /\ started = 1
    /\ queue = <<TriggerPress>>

\* C12: the listener returns only with an error, and the process then ends
\* with a failure status: the process never ends with status 0.
C12_NeverExitsOk == pc # "exit_ok"


\* ------------------------------------------------------------- the chords
\* The sequence the spec gives for a chord with `letter`.
ChordShape(letter) ==
    << <<"KeyPress", "ControlLeft">>, <<"KeyPress", letter>>,
       <<"KeyRelease", letter>>, <<"KeyRelease", "ControlLeft">> >>
\* The simulate calls at the head of the trace: those of send_ctrl_c.
CopyCalls ==
    LET n == CHOOSE m \in 0..Len(trace) :
                 /\ \A i \in 1..m : trace[i].op \in SimulateOps
                 /\ (m = Len(trace) \/ trace[m + 1].op \notin SimulateOps)
    IN  SubSeq(trace, 1, n)
\* The simulate calls after the clipboard write: those of send_ctrl_v.
PasteCalls ==
    LET w == {i \in 1..Len(trace) : trace[i].op = "set_clipboard_string"}
    IN  IF w = {} THEN <<>>
        ELSE SubSeq(trace, (CHOOSE i \in w : TRUE) + 1, Len(trace))
CopyReturned == InPipeline /\ pc # "send_ctrl_c"
PasteReturned == pc = "ret" /\ PasteCalls # <<>>
\* No call follows a failed call.
FailedIsLast(calls) == \A i \in 1..Len(calls) : ~calls[i].ok => i = Len(calls)

\* C13 (as amended): the simulate calls of a chord are a prefix of press
\* ControlLeft, press letter, release letter, release ControlLeft (letter C
\* for send_ctrl_c, V for send_ctrl_v); no call is issued after a failed one, so
\* when the k-th call fails exactly k calls were issued and the chord returns
\* a simulation failure; when no call fails the chord issues all four and
\* returns without failure.
C13_ChordPrefix ==
    InPipeline =>
        /\ IsPrefix(Shape(CopyCalls), ChordShape("KeyC"))
        /\ IsPrefix(Shape(PasteCalls), ChordShape("KeyV"))
        /\ FailedIsLast(CopyCalls)
        /\ FailedIsLast(PasteCalls)
        /\ CopyReturned =>
              /\ AllOk(CopyCalls) => Len(CopyCalls) = 4
              /\ ~AllOk(CopyCalls) <=> (pc = "ret" /\ result = ErrCtrlC)
        /\ PasteReturned =>
              /\ AllOk(PasteCalls) => (Len(PasteCalls) = 4 /\ result = "Ok")
              /\ ~AllOk(PasteCalls) <=> result = ErrCtrlV

\* The second call of the paste chord failed: two calls were issued and the
\* invocation returned the simulation failure.
C13_Witness ==
    /\ pc = "ret"
    /\ Len(PasteCalls) = 2
    /\ ~PasteCalls[2].ok
    /\ result = ErrCtrlV

\* C13 as stated: the calls of a chord are a prefix of the four, and a chord
\* that has returned issued all four exactly when no call failed.
C13_FullIffNoFailure ==
    InPipeline =>
        /\ IsPrefix(Shape(CopyCalls), ChordShape("KeyC"))
        /\ IsPrefix(Shape(PasteCalls), ChordShape("KeyV"))
        /\ FailedIsLast(CopyCalls)
        /\ FailedIsLast(PasteCalls)
        /\ CopyReturned => (Len(CopyCalls) = 4 <=> AllOk(CopyCalls))
        /\ PasteReturned => (Len(PasteCalls) = 4 <=> AllOk(PasteCalls))


\* ------------------------------------------------------ the text written
\* C14: in every invocation that reaches the write, the text passed to the
\* clipboard write is the transform of the text that the one clipboard read of
\* the same invocation returned (the call just before it), whatever earlier
\* invocations read or wrote.
C14_WritesTransformOfOwnRead ==
    \A i \in 1..Len(trace) :
        trace[i].op = "set_clipboard_string"
        => /\ i > 1
           /\ trace[i - 1].op = "get_clipboard_string"
           /\ trace[i - 1].ok
           /\ trace[i].val = Expected(trace[i - 1].val)
           /\ Cardinality({j \in 1..Len(trace) :
                             trace[j].op = "get_clipboard_string"}) = 1

\* The second invocation read a line feed and wrote a space.
C14_Witness ==
    /\ started = 2
    /\ pc = "send_ctrl_v"
    /\ trace[5].op = "get_clipboard_string"
    /\ trace[5].val = <<LF>>
    /\ trace[6].op = "set_clipboard_string"
    /\ trace[6].ok
    /\ trace[6].val = <<SP>>


\* ------------------------------------------------------------ termination
CountOps(ops) == Cardinality({i \in 1..Len(trace) : trace[i].op \in ops})

\* C15: when every collaborator call returns, every invocation that started
\* returns and the thread is listening again; an invocation makes at most 8
\* simulate calls, one clipboard read and one clipboard write.
C15_InvocationReturns ==
    /\ [](/\ CountOps(SimulateOps) <= 8
          /\ CountOps({"get_clipboard_string"}) <= 1
          /\ CountOps({"set_clipboard_string"}) <= 1)
    /\ (active = 1) ~> (active = 0 /\ pc = "listen")

\* An invocation has started, run and returned Ok, and the thread is
\* listening again.
C15_Witness ==
    /\ pc = "listen"
    /\ active = 0
    /\ started = 1
    /\ trace = <<>>
    /\ last_event = TriggerPress


\* ------------------------------------------------------------- keys held
\* The keys that the calls of the trace leave down: pressed by a simulate call
\* that succeeded, with no release call of the same key after it.
HeldKeys ==
    {trace[i].key : i \in
        {j \in 1..Len(trace) :
            /\ trace[j].op = "KeyPress"
            /\ trace[j].ok
            /\ \A m \in (j + 1)..Len(trace) :
                  ~(trace[m].op = "KeyRelease" /\ trace[m].key = trace[j].key)}}

\* C16: when an invocation returns, with success or with any failure, no
\* simulated key is left held down: every key it pressed has been followed by
\* a release call of the same key in the same invocation.
C16_NoKeyLeftDown == pc = "ret" => HeldKeys = {}

\* ------------------------------------------- the hook sees simulated keys
\* The global hook reports every key event of the system, the ones that
\* simulate() injects included: a simulate call that succeeded puts its event
\* in the stream the callback reads from (unless the stream has no room).
SimulatedEvent(call) == [type |-> call.op, key |-> call.key]

Feedback ==
    LET call == trace'[Len(trace')] IN
    IF call.ok /\ Len(queue) < MaxQueue
    THEN queue' \in {queue, Append(queue, SimulatedEvent(call))}
    ELSE queue' = queue

\* The user presses the trigger key, once.
UserPress ==
    /\ pc = "listen"
    /\ queue = <<>>
    /\ delivered = 0
    /\ queue' = <<[type |-> "KeyPress", key |-> target_key]>>
    /\ UNCHANGED <<pc, k, clipboard, original_text, modified_text, trace,
                   result, target_key, delivered, started, active, last_event>>

\* send_ctrl_c, with the events of its simulate calls reported to the hook.
SendCtrlCSeen ==
    /\ pc = "send_ctrl_c"
    /\ ChordStep(CtrlCChord, ErrCtrlC, "get", "none")
    /\ Feedback
    /\ UNCHANGED <<clipboard, original_text, modified_text, target_key,
                   delivered, started, active, last_event>>

\* send_ctrl_v, with the events of its simulate calls reported to the hook.
SendCtrlVSeen ==
    /\ pc = "send_ctrl_v"
    /\ ChordStep(CtrlVChord, ErrCtrlV, "ret", "Ok")
    /\ Feedback
    /\ UNCHANGED <<clipboard, original_text, modified_text, target_key,
                   delivered, started, active, last_event>>

\* The program with one press of the trigger key by the user and no other
\* key event than the ones the pipeline simulates.
NextF ==
    \/ ListenInstall
    \/ UserPress
    \/ Deliver
    \/ SendCtrlCSeen
    \/ GetClipboard
    \/ SetClipboard
    \/ SendCtrlVSeen
    \/ Return
    \/ ExternalClipboardWrite

SpecF == Init /\ [][NextF]_vars

\* C17: an invocation never causes a further invocation: when the user
\* presses the trigger key once and the only other key events are the ones
\* the pipeline simulates, at most one invocation starts, whichever key is
\* configured as the trigger.
C17_NoSelfTrigger == started <= 1

\* ------------------------------------------- the clipboard at paste time
\* C18 (as amended): the successful write leaves the transformed text on the
\* clipboard, and from then to the end of the paste chord no step of the
\* invocation changes the clipboard: at the paste chord it holds the text
\* this invocation wrote unless another process has written it during the
\* waits in between, which the invocation does not detect.
C18_OnlyOthersChangeClipboard ==
    [][ /\ (pc = "set" /\ pc' = "send_ctrl_v")
              => (clipboard' = modified_text' /\ modified_text' = Last(trace').val)
        /\ (pc = "send_ctrl_v" /\ clipboard' # clipboard)
              => UNCHANGED <<pc, k, trace, modified_text>>
        /\ (pc = "send_ctrl_v" /\ trace' # trace)
              => UNCHANGED <<clipboard, modified_text>>
      ]_vars

\* The paste chord has been simulated with the transformed text still on the
\* clipboard.
C18_Witness ==
    /\ pc = "ret"
    /\ result = "Ok"
    /\ Len(trace) = 10
    /\ original_text = <<LF>>
    /\ clipboard = <<SP>>

\* C18 as stated: whenever the invocation is at its paste chord, the clipboard
\* holds the transformed text that this invocation wrote.
C18_PasteSeesOwnText ==
    pc = "send_ctrl_v" => clipboard = modified_text

====
